---- MODULE Spec2Model ----
(***************************************************************************)
(* The calculator of src/src/Calculator.tsx (and its near-duplicate        *)
(* src/unnamed/part_000): the reducer calculatorReducer, its helper        *)
(* compute and the evaluator executeOperation.                             *)
(*                                                                         *)
(* Strings are sequences of one-character strings.  A JavaScript number is *)
(* a record: NaN, +/-Infinity, or a finite value (-1)^neg * m / 10^e kept   *)
(* canonical (e > 0 => m not divisible by 10; m = 0 => e = 0), so that the *)
(* sign of zero is kept.  The arithmetic is binary64; the record           *)
(* arithmetic below is exact, and coincides with binary64 when the         *)
(* operands are exactly representable (dyadic) and the result prints in at *)
(* most MaxResLen characters.  Results outside that domain are the value   *)
(* OutOfRange, and a step that would produce one is not taken.             *)
(***************************************************************************)
EXTENDS Integers, Sequences, FiniteSets, TLC

(***************************************************************************)
(* Bounds of the model.                                                    *)
(***************************************************************************)
\* longest operand the user types
MaxLen == 2
\* longest stringified result of a computation
MaxResLen == 3
\* evaluations of executeOperation in one session
MaxEvals == 1

\* the digit buttons pressed in the model (the code has all of 0..9)
Digits == {0, 5}

(***************************************************************************)
(* enum Operation and the absent operation.                                *)
(***************************************************************************)
\* enum Operation with the multiplication sign for multiply
Operation_timesSign == [add |-> "+", subtract |-> "-", divide |-> "÷", multiply |-> "×"]

Operation == [add |-> "+", subtract |-> "-", divide |-> "÷", multiply |-> "*"]

Operations == {Operation.add, Operation.subtract, Operation.divide, Operation.multiply}

undefined == "undefined"

(***************************************************************************)
(* Numbers.                                                                *)
(***************************************************************************)
NaN == [k |-> "nan", neg |-> FALSE, m |-> 0, e |-> 0]

Inf(neg) == [k |-> "inf", neg |-> neg, m |-> 0, e |-> 0]

OutOfRange == [k |-> "out", neg |-> FALSE, m |-> 0, e |-> 0]

\* products of the exact arithmetic stay below 10^IntDigits; a larger one
\* prints longer than MaxResLen characters
IntDigits == MaxResLen + 4

RECURSIVE Pow10(_)
Pow10(n) == IF n = 0 THEN 1 ELSE 10 * Pow10(n - 1)

RECURSIVE Canon(_, _)
Canon(m, e) == IF m = 0 THEN <<0, 0>>
               ELSE IF e > 0 /\ m % 10 = 0 THEN Canon(m \div 10, e - 1)
               ELSE <<m, e>>

Fin(neg, m, e) == LET c == Canon(m, e)
                  IN [k |-> "fin", neg |-> neg, m |-> c[1], e |-> c[2]]

isNaN(x) == x.k = "nan"

IsZero(x) == x.k = "fin" /\ x.m = 0

RECURSIVE Gcd(_, _)
Gcd(a, b) == IF b = 0 THEN a ELSE Gcd(b, a % b)

RECURSIVE StripFactor(_, _)
StripFactor(n, p) == IF n % p = 0 THEN StripFactor(n \div p, p) ELSE n

RECURSIVE CountFactor(_, _)
CountFactor(n, p) == IF n % p = 0 THEN 1 + CountFactor(n \div p, p) ELSE 0

\* a finite value that binary64 holds exactly: m / 10^e with 5^e dividing m
IsExact(x) == x.k # "fin" \/ x.m % (Pow10(x.e) \div (2 ^ x.e)) = 0

Negate(x) == IF x.k = "nan" \/ x.k = "out" THEN x ELSE [x EXCEPT !.neg = ~x.neg]

Max(a, b) == IF a >= b THEN a ELSE b

Abs(n) == IF n < 0 THEN -n ELSE n

Signed(x, e) == (IF x.neg THEN -1 ELSE 1) * x.m * Pow10(e - x.e)

\* a + b of binary64, on exact operands
NumAdd(a, b) ==
  IF a.k = "out" \/ b.k = "out" THEN OutOfRange
  ELSE IF a.k = "nan" \/ b.k = "nan" THEN NaN
  ELSE IF a.k = "inf" /\ b.k = "inf" THEN (IF a.neg = b.neg THEN a ELSE NaN)
  ELSE IF a.k = "inf" THEN a
  ELSE IF b.k = "inf" THEN b
  ELSE LET e == Max(a.e, b.e)
           s == Signed(a, e) + Signed(b, e)
       IN Fin(IF s = 0 THEN a.neg /\ b.neg ELSE s < 0, Abs(s), e)

\* a - b of binary64
NumSub(a, b) == NumAdd(a, Negate(b))

\* a * b of binary64
NumMul(a, b) ==
  IF a.k = "out" \/ b.k = "out" THEN OutOfRange
  ELSE IF a.k = "nan" \/ b.k = "nan" THEN NaN
  ELSE IF a.k = "inf" \/ b.k = "inf"
       THEN (IF IsZero(a) \/ IsZero(b) THEN NaN ELSE Inf(a.neg # b.neg))
  ELSE IF a.m # 0 /\ b.m > Pow10(IntDigits) \div a.m THEN OutOfRange
  ELSE Fin(a.neg # b.neg, a.m * b.m, a.e + b.e)

\* a / b of binary64: a quotient with no finite decimal expansion of at most
\* MaxResLen fraction digits prints longer than MaxResLen characters
NumDiv(a, b) ==
  IF a.k = "out" \/ b.k = "out" THEN OutOfRange
  ELSE IF a.k = "nan" \/ b.k = "nan" THEN NaN
  ELSE IF a.k = "inf" THEN (IF b.k = "inf" THEN NaN ELSE Inf(a.neg # b.neg))
  ELSE IF b.k = "inf" THEN Fin(a.neg # b.neg, 0, 0)
  ELSE IF b.m = 0 THEN (IF a.m = 0 THEN NaN ELSE Inf(a.neg # b.neg))
  ELSE IF a.m = 0 THEN Fin(a.neg # b.neg, 0, 0)
  ELSE LET p0 == a.m * Pow10(b.e)
           q0 == b.m * Pow10(a.e)
           g  == Gcd(p0, q0)
           p  == p0 \div g
           q  == q0 \div g
           j  == Max(CountFactor(q, 2), CountFactor(q, 5))
       IN IF StripFactor(StripFactor(q, 2), 5) # 1 \/ j > MaxResLen THEN OutOfRange
          ELSE LET t == Pow10(j) \div q
               IN IF p > Pow10(IntDigits) \div t THEN OutOfRange
                  ELSE Fin(a.neg # b.neg, p * t, j)

(***************************************************************************)
(* Strings and the conversions between strings and numbers.                *)
(***************************************************************************)
DigitChars == <<"0", "1", "2", "3", "4", "5", "6", "7", "8", "9">>

IsDigit(c) == \E i \in 1..Len(DigitChars) : DigitChars[i] = c

DigitVal(c) == (CHOOSE i \in 1..Len(DigitChars) : DigitChars[i] = c) - 1

InfinityStr == <<"I", "n", "f", "i", "n", "i", "t", "y">>

NaNStr == <<"N", "a", "N">>

RECURSIVE NatDigits(_)
NatDigits(n) == IF n < 10 THEN <<DigitChars[n + 1]>>
                ELSE NatDigits(n \div 10) \o <<DigitChars[(n % 10) + 1]>>

RECURSIVE PadLeft(_, _)
PadLeft(s, n) == IF Len(s) >= n THEN s ELSE PadLeft(<<"0">> \o s, n)

\* Number.prototype.toString(10), positional notation
NumberToString(x) ==
  IF x.k = "nan" THEN NaNStr
  ELSE IF x.k = "inf" THEN (IF x.neg THEN <<"-">> ELSE <<>>) \o InfinityStr
  ELSE IF x.m = 0 THEN <<"0">>
  ELSE (IF x.neg THEN <<"-">> ELSE <<>>)
       \o NatDigits(x.m \div Pow10(x.e))
       \o (IF x.e = 0 THEN <<>>
           ELSE <<".">> \o PadLeft(NatDigits(x.m % Pow10(x.e)), x.e))

RECURSIVE DigitRun(_)
DigitRun(s) == IF s # <<>> /\ IsDigit(Head(s)) THEN 1 + DigitRun(Tail(s)) ELSE 0

RECURSIVE DigitsToNat(_)
DigitsToNat(s) == IF s = <<>> THEN 0
                  ELSE 10 * DigitsToNat(SubSeq(s, 1, Len(s) - 1)) + DigitVal(s[Len(s)])

IsPrefix(p, s) == Len(p) <= Len(s) /\ SubSeq(s, 1, Len(p)) = p

\* parseFloat: the longest prefix that is a decimal literal, NaN if there is none.
\* The exponent part of a literal is left out: toString prints an exponent only
\* below 1e-6 and from 1e21 on, which InRange excludes, so no string of the
\* model holds an "e".
parseFloat(s) ==
  LET neg  == s # <<>> /\ Head(s) = "-"
      r    == IF s # <<>> /\ Head(s) \in {"-", "+"} THEN Tail(s) ELSE s
      ni   == DigitRun(r)
      rest == SubSeq(r, ni + 1, Len(r))
      nf   == IF rest # <<>> /\ Head(rest) = "." THEN DigitRun(Tail(rest)) ELSE 0
  IN IF IsPrefix(InfinityStr, r) THEN Inf(neg)
     ELSE IF ni + nf = 0 THEN NaN
     ELSE Fin(neg, DigitsToNat(SubSeq(r, 1, ni) \o SubSeq(rest, 2, nf + 1)), nf)

includes(s, c) == \E i \in 1..Len(s) : s[i] = c

(***************************************************************************)
(* The calculator.                                                         *)
(***************************************************************************)
VARIABLES
  state,   \* the CalculatorState held by useReducer
  action,  \* the CalculatorAction dispatched last
  pre,     \* the state that action was applied to
  evals,   \* the evaluations of executeOperation so far
  ev,      \* one call of executeOperation in both files: arguments and results
  dup,     \* the CalculatorState held by the duplicate file's useReducer
  mulDiv   \* a ChooseOperation of multiply or divide was dispatched

vars == <<state, action, pre, evals, ev, dup, mulDiv>>

CalculatorState(c, p, o) == [currentOperand |-> c, previousOperand |-> p, operation |-> o]

DEFAULT_CALCULATOR_STATE == CalculatorState(<<>>, <<>>, undefined)

\* executeOperation with a guard against division by zero
executeOperation_zeroGuard(operation, a, b) ==
  CASE operation = Operation.add -> NumAdd(a, b)
    [] operation = Operation.subtract -> NumSub(a, b)
    [] operation = Operation.divide -> IF IsZero(b) THEN NaN ELSE NumDiv(a, b)
    [] operation = Operation.multiply -> NumMul(a, b)

executeOperation(operation, a, b) ==
  CASE operation = Operation.add -> NumAdd(a, b)
    [] operation = Operation.subtract -> NumSub(a, b)
    [] operation = Operation.divide -> NumDiv(a, b)
    [] operation = Operation.multiply -> NumMul(a, b)

\* the duplicate's executeOperation with the operands of subtract swapped too
executeOperation_part_000_subSwapped(operation, a, b) ==
  CASE operation = Operation.add -> NumAdd(a, b)
    [] operation = Operation.subtract -> NumSub(b, a)
    [] operation = Operation.divide -> NumMul(a, b)
    [] operation = Operation.multiply -> NumDiv(a, b)

\* executeOperation of the duplicate file
executeOperation_part_000(operation, a, b) ==
  CASE operation = Operation.add -> NumAdd(a, b)
    [] operation = Operation.subtract -> NumSub(a, b)
    [] operation = Operation.divide -> NumMul(a, b)
    [] operation = Operation.multiply -> NumDiv(a, b)

\* compute with the operands in the wrong order
compute_swapped(s) ==
  LET prev    == parseFloat(s.previousOperand)
      current == parseFloat(s.currentOperand)
  IN IF isNaN(prev) \/ isNaN(current) THEN s
     ELSE IF s.operation = undefined THEN s
     ELSE [s EXCEPT !.currentOperand =
                       NumberToString(executeOperation(s.operation, current, prev)),
                    !.operation = undefined,
                    !.previousOperand = <<>>]

\* compute without the isNaN check of the current operand
compute_uncheckedCurrent(s) ==
  LET prev    == parseFloat(s.previousOperand)
      current == parseFloat(s.currentOperand)
  IN IF isNaN(prev) THEN s
     ELSE IF s.operation = undefined THEN s
     ELSE [s EXCEPT !.currentOperand =
                       NumberToString(executeOperation(s.operation, prev, current)),
                    !.operation = undefined,
                    !.previousOperand = <<>>]

\* compute that resets the calculator when an operand does not parse
compute_resetOnNaN(s) ==
  LET prev    == parseFloat(s.previousOperand)
      current == parseFloat(s.currentOperand)
  IN IF isNaN(prev) \/ isNaN(current) THEN DEFAULT_CALCULATOR_STATE
     ELSE IF s.operation = undefined THEN s
     ELSE [s EXCEPT !.currentOperand =
                       NumberToString(executeOperation(s.operation, prev, current)),
                    !.operation = undefined,
                    !.previousOperand = <<>>]

\* compute that keeps the operation pending, so that equals repeats it
compute_keepsPending(s) ==
  LET prev    == parseFloat(s.previousOperand)
      current == parseFloat(s.currentOperand)
  IN IF isNaN(prev) \/ isNaN(current) THEN s
     ELSE IF s.operation = undefined THEN s
     ELSE [s EXCEPT !.currentOperand =
                       NumberToString(executeOperation(s.operation, prev, current))]

\* compute that does not clear previousOperand
compute_keepsPrevious(s) ==
  LET prev    == parseFloat(s.previousOperand)
      current == parseFloat(s.currentOperand)
  IN IF isNaN(prev) \/ isNaN(current) THEN s
     ELSE IF s.operation = undefined THEN s
     ELSE [s EXCEPT !.currentOperand =
                       NumberToString(executeOperation(s.operation, prev, current)),
                    !.operation = undefined]

compute(s) ==
  LET prev    == parseFloat(s.previousOperand)
      current == parseFloat(s.currentOperand)
  IN IF isNaN(prev) \/ isNaN(current) THEN s
     ELSE IF s.operation = undefined THEN s
     ELSE [s EXCEPT !.currentOperand =
                       NumberToString(executeOperation(s.operation, prev, current)),
                    !.operation = undefined,
                    !.previousOperand = <<>>]

AppendNumberAction(d) == [type |-> "appendNumber", digit |-> d, operation |-> undefined]

DeleteDigitAction == [type |-> "deleteDigit", digit |-> 0, operation |-> undefined]

AddDecimalPointAction == [type |-> "addDecimalPoint", digit |-> 0, operation |-> undefined]

ChooseOperationAction(op) == [type |-> "chooseOperation", digit |-> 0, operation |-> op]

ComputeAction == [type |-> "compute", digit |-> 0, operation |-> undefined]

ClearAction == [type |-> "clear", digit |-> 0, operation |-> undefined]

\* appendNumber that adds the digit to the operand's value
appendNumber_numeric(s, a) ==
  [s EXCEPT !.currentOperand =
     NumberToString(NumAdd(parseFloat(s.currentOperand), Fin(FALSE, a.digit, 0)))]

\* appendNumber that spreads the default state instead of the state
appendNumber_fromDefault(s, a) ==
  [DEFAULT_CALCULATOR_STATE EXCEPT
     !.currentOperand = s.currentOperand \o NumberToString(Fin(FALSE, a.digit, 0))]

\* string + number: the number is converted with ToString
appendNumber(s, a) ==
  [s EXCEPT !.currentOperand = s.currentOperand \o NumberToString(Fin(FALSE, a.digit, 0))]

\* deleteDigit with slice(1): the first character goes
deleteDigit_first(s) ==
  [s EXCEPT !.currentOperand = SubSeq(s.currentOperand, 2, Len(s.currentOperand))]

\* slice(0, -1)
deleteDigit(s) ==
  [s EXCEPT !.currentOperand = SubSeq(s.currentOperand, 1, Len(s.currentOperand) - 1)]

\* addDecimalPoint without the includes('.') test
addDecimalPoint_always(s) ==
  [s EXCEPT !.currentOperand = s.currentOperand \o <<".">>]

addDecimalPoint(s) ==
  [s EXCEPT !.currentOperand = IF includes(s.currentOperand, ".")
                               THEN s.currentOperand
                               ELSE s.currentOperand \o <<".">>]

\* chooseOperation without the compute of the pending operation
chooseOperation_noChain(s, a) ==
  [s EXCEPT !.previousOperand = s.currentOperand,
            !.currentOperand = <<>>,
            !.operation = a.operation]

\* chooseOperation that stores the operand as a number
chooseOperation_normalised(s, a) ==
  LET interimState == IF s.operation # undefined THEN compute(s) ELSE s
  IN [interimState EXCEPT
        !.previousOperand = NumberToString(parseFloat(interimState.currentOperand)),
        !.currentOperand = <<>>,
        !.operation = a.operation]

chooseOperation(s, a) ==
  LET interimState == IF s.operation # undefined THEN compute(s) ELSE s
  IN [interimState EXCEPT !.previousOperand = interimState.currentOperand,
                          !.currentOperand = <<>>,
                          !.operation = a.operation]

clear == DEFAULT_CALCULATOR_STATE

\* calculatorReducer whose 'clear' case clears the entry only
calculatorReducer_clearEntry(s, a) ==
  CASE a.type = "appendNumber" -> appendNumber(s, a)
    [] a.type = "deleteDigit" -> deleteDigit(s)
    [] a.type = "addDecimalPoint" -> addDecimalPoint(s)
    [] a.type = "chooseOperation" -> chooseOperation(s, a)
    [] a.type = "compute" -> compute(s)
    [] a.type = "clear" -> [s EXCEPT !.currentOperand = <<>>]

calculatorReducer(s, a) ==
  CASE a.type = "appendNumber" -> appendNumber(s, a)
    [] a.type = "deleteDigit" -> deleteDigit(s)
    [] a.type = "addDecimalPoint" -> addDecimalPoint(s)
    [] a.type = "chooseOperation" -> chooseOperation(s, a)
    [] a.type = "compute" -> compute(s)
    [] a.type = "clear" -> clear

\* compute of the duplicate file
compute_part_000(s) ==
  LET prev    == parseFloat(s.previousOperand)
      current == parseFloat(s.currentOperand)
  IN IF isNaN(prev) \/ isNaN(current) THEN s
     ELSE IF s.operation = undefined THEN s
     ELSE [s EXCEPT !.currentOperand =
                       NumberToString(executeOperation_part_000(s.operation, prev, current)),
                    !.operation = undefined,
                    !.previousOperand = <<>>]

\* calculatorReducer of the duplicate file
calculatorReducer_part_000(s, a) ==
  CASE a.type = "appendNumber" ->
         [s EXCEPT !.currentOperand =
            s.currentOperand \o NumberToString(Fin(FALSE, a.digit, 0))]
    [] a.type = "deleteDigit" ->
         [s EXCEPT !.currentOperand = SubSeq(s.currentOperand, 1, Len(s.currentOperand) - 1)]
    [] a.type = "addDecimalPoint" ->
         [s EXCEPT !.currentOperand = IF includes(s.currentOperand, ".")
                                      THEN s.currentOperand
                                      ELSE s.currentOperand \o <<".">>]
    [] a.type = "chooseOperation" ->
         LET interimState == IF s.operation # undefined THEN compute_part_000(s) ELSE s
         IN [interimState EXCEPT !.previousOperand = interimState.currentOperand,
                                 !.currentOperand = <<>>,
                                 !.operation = a.operation]
    [] a.type = "compute" -> compute_part_000(s)
    [] a.type = "clear" -> DEFAULT_CALCULATOR_STATE

\* useReducer: the actions of a session, dispatched in order
RECURSIVE dispatchAll(_, _)
dispatchAll(s, as) ==
  IF as = <<>> THEN s ELSE dispatchAll(calculatorReducer(s, Head(as)), Tail(as))

\* App: the text of the previous-operand line, {previousOperand} {operation};
\* React renders an undefined operation as nothing
previousOperandLine(s) ==
  s.previousOperand \o <<" ">> \o (IF s.operation = undefined THEN <<>> ELSE <<s.operation>>)

(***************************************************************************)
(* The steps the model explores.                                           *)
(***************************************************************************)
\* compute passes its early returns and calls executeOperation
Evaluates(s) ==
  /\ ~isNaN(parseFloat(s.previousOperand))
  /\ ~isNaN(parseFloat(s.currentOperand))
  /\ s.operation # undefined

InRange(x) == x.k # "out" /\ (x.k = "fin" => Len(NumberToString(x)) <= MaxResLen)

\* the evaluation compute(s) makes is one the exact arithmetic models
Modelled(s) ==
  LET prev    == parseFloat(s.previousOperand)
      current == parseFloat(s.currentOperand)
  IN /\ evals < MaxEvals
     /\ IsExact(prev) /\ IsExact(current)
     /\ InRange(executeOperation(s.operation, prev, current))

Dispatch(a) ==
  /\ state' = calculatorReducer(state, a)
  /\ action' = a
  /\ pre' = state
  /\ UNCHANGED <<ev, dup, mulDiv>>

AppendNumber(d) ==
  /\ Len(state.currentOperand) < MaxLen
  /\ Dispatch(AppendNumberAction(d))
  /\ UNCHANGED evals

DeleteDigit ==
  /\ Dispatch(DeleteDigitAction)
  /\ UNCHANGED evals

AddDecimalPoint ==
  /\ includes(state.currentOperand, ".") \/ Len(state.currentOperand) < MaxLen
  /\ Dispatch(AddDecimalPointAction)
  /\ UNCHANGED evals

ChooseOperation(op) ==
  /\ Evaluates(state) => Modelled(state)
  /\ Dispatch(ChooseOperationAction(op))
  /\ evals' = IF Evaluates(state) THEN evals + 1 ELSE evals

Compute ==
  /\ Evaluates(state) => Modelled(state)
  /\ Dispatch(ComputeAction)
  /\ evals' = IF Evaluates(state) THEN evals + 1 ELSE evals

Clear ==
  /\ Dispatch(ClearAction)
  /\ UNCHANGED evals

InitAction == [type |-> "init", digit |-> 0, operation |-> undefined]

EvIdle == [op |-> undefined, a |-> NaN, b |-> NaN, out |-> NaN, outDup |-> NaN, done |-> FALSE]

Init ==
  /\ state = DEFAULT_CALCULATOR_STATE
  /\ action = InitAction
  /\ pre = DEFAULT_CALCULATOR_STATE
  /\ evals = 0
  /\ ev = EvIdle
  /\ dup = DEFAULT_CALCULATOR_STATE
  /\ mulDiv = FALSE

Next ==
  \/ \E d \in Digits : AppendNumber(d)
  \/ DeleteDigit
  \/ AddDecimalPoint
  \/ \E op \in Operations : ChooseOperation(op)
  \/ Compute
  \/ Clear

\* a session from the default state
Spec == Init /\ [][Next]_vars

(***************************************************************************)
(* The reducer on any state: one dispatch on a state whose operands are    *)
(* drawn from AnyOperands, reachable from the default state or not.        *)
(***************************************************************************)
AnyOperands ==
  { <<>>, <<"0">>, <<"3">>, <<"4">>, <<"5">>, <<"6">>, <<"1", "0">>, <<"1", "2">>,
    <<"1", "2", ".">>, <<"0", "0", "7", ".">>, <<".", ".">>, <<"5", ".", "5", ".">>,
    <<"-">>, <<"-", "0">>, NaNStr, InfinityStr }

InitAny ==
  /\ state \in { CalculatorState(c, p, o) :
                   c \in AnyOperands, p \in AnyOperands, o \in Operations \cup {undefined} }
  /\ action = InitAction
  /\ pre = state
  /\ evals = 0
  /\ ev = EvIdle
  /\ dup = DEFAULT_CALCULATOR_STATE
  /\ mulDiv = FALSE

\* every value of the CalculatorAction type, with the digits of all ten buttons
CalculatorActions ==
  { AppendNumberAction(d) : d \in 0..9 }
    \cup { ChooseOperationAction(op) : op \in Operations }
    \cup { DeleteDigitAction, AddDecimalPointAction, ComputeAction, ClearAction }

\* compute is called by the 'compute' case, and by the 'chooseOperation' case
\* when an operation is pending
CallsCompute(s, a) ==
  a.type = "compute" \/ (a.type = "chooseOperation" /\ s.operation # undefined)

\* one dispatch on the state drawn by InitAny
Apply(a) ==
  /\ action = InitAction
  /\ (CallsCompute(state, a) /\ Evaluates(state)) => Modelled(state)
  /\ Dispatch(a)
  /\ evals' = IF CallsCompute(state, a) /\ Evaluates(state) THEN evals + 1 ELSE evals

NextAny == \E a \in CalculatorActions : Apply(a)

SpecAny == InitAny /\ [][NextAny]_vars

(***************************************************************************)
(* The evaluator alone: one call of executeOperation, in both files, on    *)
(* arguments the exact arithmetic models.                                  *)
(***************************************************************************)
EvalOperands == { parseFloat(s) : s \in AnyOperands \cup { <<".", "5">>, <<"-", "5">> } }

InitEval ==
  /\ state = DEFAULT_CALCULATOR_STATE
  /\ action = InitAction
  /\ pre = DEFAULT_CALCULATOR_STATE
  /\ evals = 0
  /\ ev \in { [EvIdle EXCEPT !.op = o, !.a = a, !.b = b] :
                o \in Operations, a \in EvalOperands, b \in EvalOperands }
  /\ dup = DEFAULT_CALCULATOR_STATE
  /\ mulDiv = FALSE

Evaluate ==
  /\ ~ev.done
  /\ IsExact(ev.a) /\ IsExact(ev.b)
  /\ InRange(executeOperation(ev.op, ev.a, ev.b))
  /\ InRange(executeOperation_part_000(ev.op, ev.a, ev.b))
  /\ ev' = [ev EXCEPT !.out = executeOperation(ev.op, ev.a, ev.b),
                      !.outDup = executeOperation_part_000(ev.op, ev.a, ev.b),
                      !.done = TRUE]
  /\ UNCHANGED <<state, action, pre, evals, dup, mulDiv>>

NextEval == Evaluate

SpecEval == InitEval /\ [][NextEval]_vars

(***************************************************************************)
(* The two files side by side: one session whose actions are dispatched to *)
(* the reducer of Calculator.tsx and to the reducer of part_000.           *)
(***************************************************************************)
SessionActions ==
  { AppendNumberAction(d) : d \in Digits }
    \cup { ChooseOperationAction(op) : op \in Operations }
    \cup { DeleteDigitAction, AddDecimalPointAction, ComputeAction, ClearAction }

\* the evaluation compute_part_000(s) makes is one the exact arithmetic models
Modelled_part_000(s) ==
  LET prev    == parseFloat(s.previousOperand)
      current == parseFloat(s.currentOperand)
  IN /\ evals < MaxEvals
     /\ IsExact(prev) /\ IsExact(current)
     /\ InRange(executeOperation_part_000(s.operation, prev, current))

\* the bounds of AppendNumber and AddDecimalPoint, on the operand of s
Typeable(s, a) ==
  /\ a.type = "appendNumber" => Len(s.currentOperand) < MaxLen
  /\ a.type = "addDecimalPoint"
       => (includes(s.currentOperand, ".") \/ Len(s.currentOperand) < MaxLen)

InitPair ==
  /\ state = DEFAULT_CALCULATOR_STATE
  /\ dup = DEFAULT_CALCULATOR_STATE
  /\ action = InitAction
  /\ pre = DEFAULT_CALCULATOR_STATE
  /\ evals = 0
  /\ ev = EvIdle
  /\ mulDiv = FALSE

\* The session is followed while the two states agree: the first state in
\* which they differ is reached and not left.
DispatchBoth(a) ==
  /\ dup = state
  /\ Typeable(state, a) /\ Typeable(dup, a)
  /\ (CallsCompute(state, a) /\ Evaluates(state)) => Modelled(state)
  /\ (CallsCompute(dup, a) /\ Evaluates(dup)) => Modelled_part_000(dup)
  /\ state' = calculatorReducer(state, a)
  /\ dup' = calculatorReducer_part_000(dup, a)
  /\ action' = a
  /\ mulDiv' = (mulDiv \/ a \in { ChooseOperationAction(Operation.multiply),
                                  ChooseOperationAction(Operation.divide) })
  /\ evals' = IF \/ CallsCompute(state, a) /\ Evaluates(state)
                 \/ CallsCompute(dup, a) /\ Evaluates(dup)
              THEN evals + 1 ELSE evals
  /\ UNCHANGED <<pre, ev>>

NextPair == \E a \in SessionActions : DispatchBoth(a)

SpecPair == InitPair /\ [][NextPair]_vars

(***************************************************************************)
(* The properties.                                                         *)
(***************************************************************************)
\* the evaluator's contract: Add is a + b, Subtract a - b, Multiply a * b,
\* Divide a / b, with a the left and b the right operand
evaluate(operation, a, b) ==
  CASE operation = Operation.add -> NumAdd(a, b)
    [] operation = Operation.subtract -> NumSub(a, b)
    [] operation = Operation.multiply -> NumMul(a, b)
    [] operation = Operation.divide -> NumDiv(a, b)

Parses(str) == ~isNaN(parseFloat(str))

\* the state that closes the pending computation of s
Computed(s) ==
  NumberToString(evaluate(s.operation, parseFloat(s.previousOperand),
                          parseFloat(s.currentOperand)))

\* C1: in every state reachable from the default state, operation is present
\* if and only if previousOperand is non-empty.
C1_OperationIffPrevious ==
  (state.operation # undefined) <=> (state.previousOperand # <<>>)

\* C2: when an operation is pending and both operands parse, Compute yields
\* currentOperand = the base-10 string of evaluate(operation, previous, current),
\* previousOperand empty and operation absent; "6" Divide "3" gives "2" and
\* "10" Subtract "4" gives "6".
C2_ComputeResult ==
  /\ (action.type = "compute" /\ pre.operation # undefined
        /\ Parses(pre.previousOperand) /\ Parses(pre.currentOperand))
       => state = CalculatorState(Computed(pre), <<>>, undefined)
  /\ (action.type = "compute"
        /\ pre = CalculatorState(<<"3">>, <<"6">>, Operation.divide))
       => state = CalculatorState(<<"2">>, <<>>, undefined)
  /\ (action.type = "compute"
        /\ pre = CalculatorState(<<"4">>, <<"1", "0">>, Operation.subtract))
       => state = CalculatorState(<<"6">>, <<>>, undefined)

C2_Witness ==
  /\ action.type = "compute"
  /\ pre = CalculatorState(<<"4">>, <<"1", "0">>, Operation.subtract)
  /\ state.currentOperand = <<"6">>

\* C3: in both copies of the evaluator, executeOperation returns a + b for
\* add, a - b for subtract, a * b for multiply and a / b for divide.
C3_BothEvaluators ==
  ev.done => /\ ev.out = evaluate(ev.op, ev.a, ev.b)
             /\ ev.outDup = evaluate(ev.op, ev.a, ev.b)

\* C4: Compute returns the state unchanged whenever previousOperand does not
\* parse, or currentOperand does not parse, or no operation is pending.
C4_ComputeNoOp ==
  (action.type = "compute"
     /\ (~Parses(pre.previousOperand) \/ ~Parses(pre.currentOperand)
           \/ pre.operation = undefined))
    => state = pre

C4_Witness ==
  /\ action.type = "compute"
  /\ pre.operation # undefined
  /\ Parses(pre.previousOperand)
  /\ pre.currentOperand = <<>>
  /\ state = pre

\* C5: with an operation op1 pending and both operands parsing,
\* ChooseOperation(op2) yields previousOperand = the string of
\* evaluate(op1, previous, current), currentOperand empty and operation op2;
\* 5, Add, 3, Subtract from the default state ends in {"8", "", Subtract}.
C5_ChainedOperation ==
  /\ (action.type = "chooseOperation" /\ pre.operation # undefined
        /\ Parses(pre.previousOperand) /\ Parses(pre.currentOperand))
       => state = CalculatorState(<<>>, Computed(pre), action.operation)
  /\ dispatchAll(DEFAULT_CALCULATOR_STATE,
                 << AppendNumberAction(5), ChooseOperationAction(Operation.add),
                    AppendNumberAction(3), ChooseOperationAction(Operation.subtract) >>)
       = CalculatorState(<<>>, <<"8">>, Operation.subtract)

C5_Witness ==
  /\ action = ChooseOperationAction(Operation.subtract)
  /\ pre = CalculatorState(<<"3">>, <<"5">>, Operation.add)
  /\ state = CalculatorState(<<>>, <<"8">>, Operation.subtract)

\* C6: with no operation pending, ChooseOperation(op) yields previousOperand =
\* the old currentOperand verbatim, currentOperand empty and operation op.
C6_ChooseMovesVerbatim ==
  (action.type = "chooseOperation" /\ pre.operation = undefined)
    => state = CalculatorState(<<>>, pre.currentOperand, action.operation)

C6_Witness ==
  /\ action.type = "chooseOperation"
  /\ pre.operation = undefined
  /\ pre.currentOperand = <<"0", "0", "7", ".">>
  /\ state.previousOperand = <<"0", "0", "7", ".">>

\* C7: Clear applied to any state returns exactly the default state:
\* currentOperand empty, previousOperand empty, operation absent.
C7_ClearResets ==
  action.type = "clear"
    => /\ state.currentOperand = <<>>
       /\ state.previousOperand = <<>>
       /\ state.operation = undefined

C7_Witness ==
  /\ action.type = "clear"
  /\ pre.currentOperand # <<>> /\ pre.previousOperand # <<>> /\ pre.operation # undefined
  /\ state.currentOperand = <<>> /\ state.previousOperand = <<>>
  /\ state.operation = undefined

RECURSIVE Count(_, _)
Count(str, c) ==
  IF str = <<>> THEN 0 ELSE (IF Head(str) = c THEN 1 ELSE 0) + Count(Tail(str), c)

\* C8: in every state reachable from the default state, also when
\* currentOperand is a stringified result, currentOperand contains at most one
\* decimal point.
C8_AtMostOnePoint == Count(state.currentOperand, ".") <= 1

C8_Witness ==
  /\ action.type = "addDecimalPoint"
  /\ evals > 0
  /\ pre.currentOperand = <<"2", ".", "5">>
  /\ state.currentOperand = <<"2", ".", "5">>

\* C9 as stated: a transition from a reachable non-default state to the
\* default state is a Clear.
C9_OnlyClear ==
  (action # InitAction /\ pre # DEFAULT_CALCULATOR_STATE
     /\ state = DEFAULT_CALCULATOR_STATE)
    => action.type = "clear"

\* C9, amended: a transition from a reachable non-default state to the default
\* state is a Clear, or a DeleteLastDigit of the only character of
\* currentOperand while previousOperand is empty and no operation is pending.
C9_OnlyClearOrDelete ==
  (action # InitAction /\ pre # DEFAULT_CALCULATOR_STATE
     /\ state = DEFAULT_CALCULATOR_STATE)
    => \/ action.type = "clear"
       \/ /\ action.type = "deleteDigit"
          /\ Len(pre.currentOperand) = 1
          /\ pre.previousOperand = <<>>
          /\ pre.operation = undefined

C9_Witness ==
  /\ action.type = "deleteDigit"
  /\ pre # DEFAULT_CALCULATOR_STATE
  /\ state = DEFAULT_CALCULATOR_STATE

Chars ==
  { DigitChars[i] : i \in 1..Len(DigitChars) } \cup {".", "-"}
    \cup { InfinityStr[i] : i \in 1..Len(InfinityStr) }
    \cup { NaNStr[i] : i \in 1..Len(NaNStr) }

\* C10: every action on every reachable state yields a state with string
\* operands; a Compute with Divide and a right operand of 0 yields
\* currentOperand "Infinity" for a positive left operand and "NaN" for a left
\* operand of 0, with previousOperand empty and operation absent.
C10_NeverFails ==
  /\ state.currentOperand \in Seq(Chars)
  /\ state.previousOperand \in Seq(Chars)
  /\ state.operation \in Operations \cup {undefined}
  /\ (action.type = "compute" /\ pre.operation = Operation.divide
        /\ IsZero(parseFloat(pre.currentOperand)))
       => LET a == parseFloat(pre.previousOperand)
          IN /\ (a.k = "fin" /\ a.m > 0 /\ ~a.neg)
                  => state = CalculatorState(InfinityStr, <<>>, undefined)
             /\ IsZero(a) => state = CalculatorState(NaNStr, <<>>, undefined)

C10_Witness ==
  /\ action.type = "compute"
  /\ pre = CalculatorState(<<"0">>, <<"5">>, Operation.divide)
  /\ state = CalculatorState(InfinityStr, <<>>, undefined)

\* C11: AppendDigit(d), for every digit d and every state, yields
\* currentOperand = the old currentOperand followed by the one-character text
\* of d; from "" the digits 1, 2, 3 yield "123" and 0, 0 yield "00".
C11_AppendConcatenates ==
  /\ action.type = "appendNumber"
       => state.currentOperand = pre.currentOperand \o <<DigitChars[action.digit + 1]>>
  /\ dispatchAll(DEFAULT_CALCULATOR_STATE,
                 <<AppendNumberAction(1), AppendNumberAction(2), AppendNumberAction(3)>>)
       .currentOperand = <<"1", "2", "3">>
  /\ dispatchAll(DEFAULT_CALCULATOR_STATE, <<AppendNumberAction(0), AppendNumberAction(0)>>)
       .currentOperand = <<"0", "0">>

C11_Witness ==
  /\ action = AppendNumberAction(3)
  /\ pre.currentOperand = <<"1", "2">>
  /\ state.currentOperand = <<"1", "2", "3">>

\* C12: AddDecimalPoint appends "." to currentOperand only when it holds no
\* ".", and applying it again changes nothing.
C12_DecimalPointIdempotent ==
  action.type = "addDecimalPoint"
    => /\ state.currentOperand = IF Count(pre.currentOperand, ".") > 0
                                 THEN pre.currentOperand
                                 ELSE pre.currentOperand \o <<".">>
       /\ calculatorReducer(state, AddDecimalPointAction) = state

C12_Witness ==
  /\ action.type = "addDecimalPoint"
  /\ pre.currentOperand = <<"1", "2">>
  /\ state.currentOperand = <<"1", "2", ".">>
  /\ calculatorReducer(state, AddDecimalPointAction) = state

\* C13: DeleteLastDigit removes exactly the last character of a non-empty
\* currentOperand and leaves the whole state unchanged when it is empty.
C13_DeleteLast ==
  action.type = "deleteDigit"
    => IF pre.currentOperand = <<>>
       THEN state = pre
       ELSE /\ Len(state.currentOperand) = Len(pre.currentOperand) - 1
            /\ \A i \in 1..Len(state.currentOperand) :
                 state.currentOperand[i] = pre.currentOperand[i]

C13_Witness ==
  /\ action.type = "deleteDigit"
  /\ pre.currentOperand = <<"0", "0", "7", ".">>
  /\ state.currentOperand = <<"0", "0", "7">>

\* C18: AppendDigit, DeleteLastDigit and AddDecimalPoint change only
\* currentOperand: previousOperand and operation are as before the action.
C18_EditingFrame ==
  action.type \in {"appendNumber", "deleteDigit", "addDecimalPoint"}
    => /\ state.previousOperand = pre.previousOperand
       /\ state.operation = pre.operation

C18_Witness ==
  /\ action.type = "appendNumber"
  /\ pre.previousOperand = <<"1", "2">>
  /\ pre.operation = Operation.add
  /\ state.currentOperand # pre.currentOperand
  /\ state.previousOperand = <<"1", "2">>
  /\ state.operation = Operation.add

\* C19: Compute is idempotent: a Compute on the state a Compute returned
\* returns that state.
C19_ComputeIdempotent ==
  action.type = "compute" => calculatorReducer(state, ComputeAction) = state

C19_Witness ==
  /\ action.type = "compute"
  /\ pre = CalculatorState(<<"3">>, <<"6">>, Operation.divide)
  /\ state # pre
  /\ calculatorReducer(state, ComputeAction) = state

\* C14 as stated: the pending operation is displayed next to previousOperand
\* as one of the glyphs "+", "-", "×" (Multiply) and "÷".
C14_GlyphsAsStated ==
  state.operation # undefined
    => /\ previousOperandLine(state) = state.previousOperand \o <<" ", state.operation>>
       /\ state.operation \in {"+", "-", "×", "÷"}
       /\ (action = ChooseOperationAction(Operation.multiply) => state.operation = "×")

\* C14, amended: the four Operation tags carry the glyphs "+" for Add, "-"
\* for Subtract, "*" for Multiply and "÷" for Divide, and the glyph of the
\* pending operation is what is displayed next to previousOperand.
C14_Glyphs ==
  /\ Operation.add = "+" /\ Operation.subtract = "-"
  /\ Operation.multiply = "*" /\ Operation.divide = "÷"
  /\ state.operation # undefined
       => /\ previousOperandLine(state) = state.previousOperand \o <<" ", state.operation>>
          /\ state.operation \in {"+", "-", "*", "÷"}
          /\ (action = ChooseOperationAction(Operation.multiply) => state.operation = "*")

C14_Witness ==
  /\ action = ChooseOperationAction(Operation.multiply)
  /\ state.previousOperand = <<"5">>
  /\ previousOperandLine(state) = <<"5", " ", "*">>

\* C15: choosing an operation never discards the first operand: with an
\* operation pending and a non-empty previousOperand, ChooseOperation(op)
\* yields a non-empty previousOperand, also when currentOperand is empty.
C15_KeepsFirstOperand ==
  (action.type = "chooseOperation" /\ pre.operation # undefined
     /\ pre.previousOperand # <<>>)
    => state.previousOperand # <<>>

\* C17: in every state reachable from the default state, a non-empty
\* previousOperand implies that an operation is pending.
C17_PreviousImpliesOperation ==
  state.previousOperand # <<>> => state.operation # undefined

C17_Witness ==
  /\ action.type = "chooseOperation"
  /\ evals > 0
  /\ state.previousOperand # <<>>
  /\ state.operation # undefined

\* C16: run side by side from the default state on the same actions, the two
\* reducers are in identical states after every step as long as no
\* ChooseOperation(Multiply) and no ChooseOperation(Divide) was dispatched.
C16_CopiesAgree == ~mulDiv => dup = state

C16_Witness ==
  /\ ~mulDiv
  /\ action.type = "compute"
  /\ evals > 0
  /\ state.currentOperand = <<"-", "5">>
  /\ dup = state

====
